---- MODULE Spec2Model ----
(***************************************************************************)
(* Model of gap::GapBuffer<T> (src/src/main.rs, mod gap).                  *)
(*                                                                         *)
(* The buffer is a Vec<T> whose length is always zero and whose capacity   *)
(* is the raw slot count, plus a Range<usize> `gap` of slots that hold no  *)
(* live element.  Elements are modelled by distinct identities 1..n (the   *)
(* n-th inserted element is n) so that a lost, duplicated or reordered     *)
(* element is visible.  A raw slot holds either the element it owns or     *)
(* Uninit: a slot that was never written, or whose element was moved out   *)
(* of it (ptr::read, the source side of ptr::copy) -- the source calls     *)
(* these slots "not initialized": their bytes are not an element.          *)
(* T is a type of non-zero size (main uses char), for which                *)
(* Vec::with_capacity(n) allocates exactly n slots and Vec::new() none.    *)
(***************************************************************************)
EXTENDS Integers, Sequences, FiniteSets, TLC

\* ---------------------------------------------------------------- bounds
MaxInserts == 5      \* insert calls in one behaviour (5 reaches capacity 8)
MaxIter    == 2      \* longest iterable handed to insert_iter
WordBits   == 5      \* width of usize in the model

Word     == 2 ^ WordBits          \* usize arithmetic is modulo Word
\* indices handed to get: around the contents, and the top of the word
GetIndices == (0 .. MaxInserts) \cup {Word - 1}
Uninit   == 0                     \* content of a never-written slot
Elems    == 1 .. MaxInserts
Vals     == 0 .. MaxInserts

VARIABLES
  storage,          \* GapBuffer.storage : Vec<T>  [cap, len, mem]
  gap,              \* GapBuffer.gap : Range<usize> [start, end]
  destructed,       \* per value: how many times drop_in_place ran on it
  touched,          \* raw slots on which Drop::drop called drop_in_place
  phase,            \* "live", "unwinding" (after a panic), "dropped"
  ret,              \* the last call and what it returned
  handed,           \* per value: how many times remove() returned it
  nInserts,         \* number of insert calls so far
  nRemoved,         \* number of remove calls that returned an element
  peak,             \* capacity that the largest len() so far calls for
  model,            \* reference sequence (logical order)
  cursor            \* reference cursor

vars == <<storage, gap, destructed, touched, phase, ret,
          handed, nInserts, nRemoved, peak, model, cursor>>

\* The buffer as one value: the two fields plus the destructor log.
Buf == [storage |-> storage, gap |-> gap,
        destructed |-> destructed, touched |-> touched]

\* ------------------------------------------------------------ Vec<T>
\* Vec::new() / Vec::with_capacity(n): length 0, n raw slots, nothing written
VecWithCapacity(n) == [cap |-> n, len |-> 0, mem |-> [i \in 0 .. n - 1 |-> Uninit]]

\* Range<usize>::len(): 0 for an empty or inverted range
RangeLen(r) == IF r.start < r.end THEN r.end - r.start ELSE 0

\* std::ptr::drop_in_place on raw slot i of the buffer's storage
drop_in_place(b, i) ==
  [b EXCEPT !.destructed[b.storage.mem[i]] = @ + 1,
            !.touched = @ \cup {i}]

\* drop_in_place on the raw slots lo .. hi-1, in increasing order
RECURSIVE drop_range(_, _, _)
drop_range(b, lo, hi) ==
  IF lo >= hi THEN b ELSE drop_range(drop_in_place(b, lo), lo + 1, hi)

\* Dropping a Vec destructs its elements [0, len) and frees the block; the
\* value log is all that remains visible.
RECURSIVE VecDrop(_, _, _)
VecDrop(log, v, i) ==
  IF i >= v.len THEN log
  ELSE VecDrop([log EXCEPT ![v.mem[i]] = @ + 1], v, i + 1)

\* a copy that runs from the lowest slot up and reads what it has written
RECURSIVE copy_ascending(_, _, _, _, _)
copy_ascending(mem, src, dst, count, k) ==
  IF k >= count THEN mem
  ELSE copy_ascending([mem EXCEPT ![dst + k] = mem[src + k]], src, dst, count, k + 1)

ptr_copy_ascending(mem, src, dst, count) ==
  LET m == copy_ascending(mem, src, dst, count, 0) IN
  [i \in DOMAIN mem |->
     IF dst <= i /\ i < dst + count THEN m[i]
     ELSE IF src <= i /\ i < src + count THEN Uninit
     ELSE m[i]]

\* std::ptr::copy (memmove): moves count elements from src to dst inside
\* one block; the ranges may overlap.  Every destination slot receives the
\* element its source slot held before the call; a source slot that is not
\* also a destination no longer owns an element.
ptr_copy(mem, src, dst, count) ==
  [i \in DOMAIN mem |->
     IF dst <= i /\ i < dst + count THEN mem[src + (i - dst)]
     ELSE IF src <= i /\ i < src + count THEN Uninit
     ELSE mem[i]]

\* std::ptr::copy_nonoverlapping from block `from` into another block `to`
\* (the block `from` is freed by the caller right after)
copy_nonoverlapping(from, src, to, dst, count) ==
  [i \in DOMAIN to |->
     IF dst <= i /\ i < dst + count THEN from[src + (i - dst)] ELSE to[i]]

\* ------------------------------------------------------------ GapBuffer<T>
new == [storage |-> VecWithCapacity(0), gap |-> [start |-> 0, end |-> 0],
        destructed |-> [v \in Vals |-> 0], touched |-> {}]

capacity(b) == b.storage.cap

len_prefix(b) == b.gap.start

len(b) == capacity(b) - RangeLen(b.gap)

position(b) == b.gap.start

index_to_raw_le(b, index) ==
  IF index <= b.gap.start
  THEN [raw |-> index, overflow |-> FALSE]
  ELSE [raw |-> (index + RangeLen(b.gap)) % Word,
        overflow |-> index + RangeLen(b.gap) >= Word]

\* index + gap.len() in usize: `overflow` tells that the sum left the word
index_to_raw(b, index) ==
  IF index < b.gap.start
  THEN [raw |-> index, overflow |-> FALSE]
  ELSE [raw |-> (index + RangeLen(b.gap)) % Word,
        overflow |-> index + RangeLen(b.gap) >= Word]

\* get: Some(&storage[raw]) / None.  `checks` is the build's overflow-checks
\* setting: an overflowing addition panics when it is on and wraps otherwise
get(b, index, checks) ==
  LET r == index_to_raw(b, index) IN
  IF r.overflow /\ checks THEN [kind |-> "Panic", raw |-> 0]
  ELSE IF r.raw < capacity(b) THEN [kind |-> "Some", raw |-> r.raw]
  ELSE [kind |-> "None", raw |-> 0]

set_position_ge(b, pos) ==
  IF pos >= len(b) THEN [panic |-> TRUE, buf |-> b]
  ELSE
    LET g == b.gap
        mem == b.storage.mem
        moved ==
          IF pos > g.start
          THEN ptr_copy(mem, g.end, g.start, pos - g.start)
          ELSE IF pos < g.start
          THEN ptr_copy(mem, pos, g.end - (g.start - pos), g.start - pos)
          ELSE mem
    IN [panic |-> FALSE,
        buf |-> [b EXCEPT !.storage.mem = moved,
                          !.gap = [start |-> pos, end |-> pos + RangeLen(g)]]]

\* the forward slide moves one element too few
set_position_short(b, pos) ==
  IF pos > len(b) THEN [panic |-> TRUE, buf |-> b]
  ELSE
    LET g == b.gap
        mem == b.storage.mem
        moved ==
          IF pos > g.start
          THEN ptr_copy(mem, g.end, g.start, pos - g.start - 1)
          ELSE IF pos < g.start
          THEN ptr_copy(mem, pos, g.end - (g.start - pos), g.start - pos)
          ELSE mem
    IN [panic |-> FALSE,
        buf |-> [b EXCEPT !.storage.mem = moved,
                          !.gap = [start |-> pos, end |-> pos + RangeLen(g)]]]

\* the backward slide is missing
set_position_fwd_only(b, pos) ==
  IF pos > len(b) THEN [panic |-> TRUE, buf |-> b]
  ELSE
    LET g == b.gap
        mem == b.storage.mem
        moved ==
          IF pos > g.start
          THEN ptr_copy(mem, g.end, g.start, pos - g.start)
          ELSE mem
    IN [panic |-> FALSE,
        buf |-> [b EXCEPT !.storage.mem = moved,
                          !.gap = [start |-> pos, end |-> pos + RangeLen(g)]]]

\* the gap is assigned before the range check
set_position_gap_first(b, pos) ==
  IF pos > len(b)
  THEN [panic |-> TRUE,
        buf |-> [b EXCEPT !.gap = [start |-> pos, end |-> pos + RangeLen(b.gap)]]]
  ELSE
    LET g == b.gap
        mem == b.storage.mem
        moved ==
          IF pos > g.start
          THEN ptr_copy(mem, g.end, g.start, pos - g.start)
          ELSE IF pos < g.start
          THEN ptr_copy(mem, pos, g.end - (g.start - pos), g.start - pos)
          ELSE mem
    IN [panic |-> FALSE,
        buf |-> [b EXCEPT !.storage.mem = moved,
                          !.gap = [start |-> pos, end |-> pos + RangeLen(g)]]]

set_position(b, pos) ==
  IF pos > len(b) THEN [panic |-> TRUE, buf |-> b]
  ELSE
    LET g == b.gap
        mem == b.storage.mem
        moved ==
          IF pos > g.start
          THEN ptr_copy(mem, g.end, g.start, pos - g.start)
          ELSE IF pos < g.start
          THEN ptr_copy(mem, pos, g.end - (g.start - pos), g.start - pos)
          ELSE mem
    IN [panic |-> FALSE,
        buf |-> [b EXCEPT !.storage.mem = moved,
                          !.gap = [start |-> pos, end |-> pos + RangeLen(g)]]]

\* std::ptr::read: moves the element out of raw slot i
ptr_read(mem, i) == [value |-> mem[i], mem |-> [mem EXCEPT ![i] = Uninit]]

remove_last(b) ==
  IF b.gap.end = capacity(b) THEN [some |-> FALSE, element |-> Uninit, buf |-> b]
  ELSE LET r == ptr_read(b.storage.mem, capacity(b) - 1)
       IN [some |-> TRUE, element |-> r.value,
           buf |-> [b EXCEPT !.storage.mem = r.mem, !.gap.end = @ + 1]]

remove_early_none(b) ==
  IF b.gap.end + 1 >= capacity(b) THEN [some |-> FALSE, element |-> Uninit, buf |-> b]
  ELSE LET r == ptr_read(b.storage.mem, b.gap.end)
       IN [some |-> TRUE, element |-> r.value,
           buf |-> [b EXCEPT !.storage.mem = r.mem, !.gap.end = @ + 1]]

remove(b) ==
  IF b.gap.end = capacity(b) THEN [some |-> FALSE, element |-> Uninit, buf |-> b]
  ELSE LET r == ptr_read(b.storage.mem, b.gap.end)
       IN [some |-> TRUE, element |-> r.value,
           buf |-> [b EXCEPT !.storage.mem = r.mem, !.gap.end = @ + 1]]

enlarge_gap_drop_suffix(b) ==
  LET doubled == (capacity(b) * 2) % Word
      new_capacity == IF doubled = 0 THEN 4 ELSE doubled
      fresh == VecWithCapacity(new_capacity)
      new_gap == [start |-> b.gap.start, end |-> fresh.cap]
      m1 == copy_nonoverlapping(b.storage.mem, 0, fresh.mem, 0, b.gap.start)
  IN [b EXCEPT !.storage = [fresh EXCEPT !.mem = m1],
               !.gap = new_gap,
               !.destructed = VecDrop(@, b.storage, 0)]

enlarge_gap_min2(b) ==
  LET doubled == (capacity(b) * 2) % Word
      new_capacity == IF doubled = 0 THEN 2 ELSE doubled
      fresh == VecWithCapacity(new_capacity)
      after_gap == capacity(b) - b.gap.end
      new_gap == [start |-> b.gap.start, end |-> fresh.cap - after_gap]
      m1 == copy_nonoverlapping(b.storage.mem, 0, fresh.mem, 0, b.gap.start)
      m2 == copy_nonoverlapping(b.storage.mem, b.gap.end, m1, new_gap.end, after_gap)
  IN [b EXCEPT !.storage = [fresh EXCEPT !.mem = m2],
               !.gap = new_gap,
               !.destructed = VecDrop(@, b.storage, 0)]

\* the free space is appended behind the old contents
enlarge_gap_append(b) ==
  LET doubled == (capacity(b) * 2) % Word
      new_capacity == IF doubled = 0 THEN 4 ELSE doubled
      fresh == VecWithCapacity(new_capacity)
      new_gap == [start |-> capacity(b), end |-> fresh.cap]
      m1 == copy_nonoverlapping(b.storage.mem, 0, fresh.mem, 0, capacity(b))
  IN [b EXCEPT !.storage = [fresh EXCEPT !.mem = m1],
               !.gap = new_gap,
               !.destructed = VecDrop(@, b.storage, 0)]

enlarge_gap_plus_after(b) ==
  LET doubled == (capacity(b) * 2) % Word
      new_capacity == IF doubled = 0 THEN 4 ELSE doubled
      fresh == VecWithCapacity(new_capacity)
      after_gap == capacity(b) - b.gap.end
      new_gap == [start |-> b.gap.start, end |-> fresh.cap + after_gap]
      m1 == copy_nonoverlapping(b.storage.mem, 0, fresh.mem, 0, b.gap.start)
      m2 == copy_nonoverlapping(b.storage.mem, b.gap.end, m1, new_gap.end, after_gap)
  IN [b EXCEPT !.storage = [fresh EXCEPT !.mem = m2],
               !.gap = new_gap,
               !.destructed = VecDrop(@, b.storage, 0)]

enlarge_gap(b) ==
  LET doubled == (capacity(b) * 2) % Word
      new_capacity == IF doubled = 0 THEN 4 ELSE doubled
      fresh == VecWithCapacity(new_capacity)
      after_gap == capacity(b) - b.gap.end
      new_gap == [start |-> b.gap.start, end |-> fresh.cap - after_gap]
      m1 == copy_nonoverlapping(b.storage.mem, 0, fresh.mem, 0, b.gap.start)
      m2 == copy_nonoverlapping(b.storage.mem, b.gap.end, m1, new_gap.end, after_gap)
  IN [b EXCEPT !.storage = [fresh EXCEPT !.mem = m2],
               !.gap = new_gap,
               !.destructed = VecDrop(@, b.storage, 0)]

insert_after_gap(b, elt) ==
  LET g == IF RangeLen(b.gap) = 0 THEN enlarge_gap(b) ELSE b
  IN [g EXCEPT !.storage.mem[g.gap.end - 1] = elt,
               !.gap.end = @ - 1]

\* the cursor is not advanced
insert_no_advance(b, elt) ==
  LET g == IF RangeLen(b.gap) = 0 THEN enlarge_gap(b) ELSE b
  IN [g EXCEPT !.storage.mem[g.gap.start] = elt]

\* grows one insert early
insert_eager(b, elt) ==
  LET g == IF RangeLen(b.gap) <= 1 THEN enlarge_gap(b) ELSE b
  IN [g EXCEPT !.storage.mem[g.gap.start] = elt,
               !.gap.start = @ + 1]

insert(b, elt) ==
  LET g == IF RangeLen(b.gap) = 0 THEN enlarge_gap(b) ELSE b
  IN [g EXCEPT !.storage.mem[g.gap.start] = elt,
               !.gap.start = @ + 1]

RECURSIVE insert_iter_from(_, _, _)
insert_iter_from(b, iterable, n) ==
  IF n > Len(iterable) THEN b
  ELSE insert_iter_from(insert(b, iterable[n]), iterable, n + 1)

insert_iter_skip_first(b, iterable) == insert_iter_from(b, iterable, 2)

\* the loop holds one item back and loses it when the iterator ends
insert_iter_lookahead(b, iterable) ==
  insert_iter_from(b, SubSeq(iterable, 1, Len(iterable) - 1), 1)

insert_iter(b, iterable) == insert_iter_from(b, iterable, 1)

drop_whole_block(b) ==
  LET d1 == drop_range(b, 0, capacity(b))
  IN [d1 EXCEPT !.destructed = VecDrop(@, b.storage, 0)]

\* impl Drop: the two loops of drop(), then the field `storage` is dropped
drop(b) ==
  LET d1 == drop_range(b, 0, b.gap.start)
      d2 == drop_range(d1, b.gap.end, capacity(b))
  IN [d2 EXCEPT !.destructed = VecDrop(@, b.storage, 0)]

\* ------------------------------------------------------- reference model
RefInsert(s, c, v) == SubSeq(s, 1, c) \o <<v>> \o SubSeq(s, c + 1, Len(s))
RefRemove(s, c)    == SubSeq(s, 1, c) \o SubSeq(s, c + 2, Len(s))
RefInsertAll(s, c, items) == SubSeq(s, 1, c) \o items \o SubSeq(s, c + 1, Len(s))

\* the elements of b in logical order, read through get
Logical(b) == [i \in 1 .. len(b) |-> b.storage.mem[get(b, i - 1, FALSE).raw]]

\* the smallest capacity among 0 (for no element), 4, 8, 16, .. that holds n
\* elements; it grows with n, so its running maximum is its value at the
\* largest len() so far
RECURSIVE CapAtLeast(_, _)
CapAtLeast(n, c) == IF c >= n THEN c ELSE CapAtLeast(n, 2 * c)

CapFor(n) == IF n = 0 THEN 0 ELSE CapAtLeast(n, 4)

\* how a completed set_position moved the gap: not at all, forward or
\* backward, and whether the ranges of the ptr::copy shared a slot
SlideKind(b, pos) ==
  LET d == IF pos > b.gap.start THEN pos - b.gap.start ELSE b.gap.start - pos
      o == IF d > RangeLen(b.gap) THEN "_overlap" ELSE ""
  IN IF d = 0 THEN "none"
     ELSE IF pos > b.gap.start THEN "forward" \o o ELSE "backward" \o o

\* ----------------------------------------------------------------- actions
Init ==
  /\ storage = new.storage
  /\ gap = new.gap
  /\ destructed = new.destructed
  /\ touched = new.touched
  /\ phase = "live"
  /\ ret = [op |-> "new"]
  /\ handed = [v \in Vals |-> 0]
  /\ nInserts = 0
  /\ nRemoved = 0
  /\ peak = 0
  /\ model = <<>>
  /\ cursor = 0

SetBuf(b) ==
  /\ storage' = b.storage
  /\ gap' = b.gap
  /\ destructed' = b.destructed
  /\ touched' = b.touched

Insert ==
  /\ phase = "live"
  /\ nInserts < MaxInserts
  /\ LET elt == nInserts + 1
         b == insert(Buf, elt) IN
       /\ SetBuf(b)
       /\ ret' = [op |-> "insert", elt |-> elt, grew |-> RangeLen(gap) = 0]
       /\ model' = RefInsert(model, cursor, elt)
       /\ cursor' = cursor + 1
       /\ nInserts' = nInserts + 1
       /\ peak' = IF CapFor(len(b)) > peak THEN CapFor(len(b)) ELSE peak
  /\ UNCHANGED <<phase, handed, nRemoved>>

InsertIter ==
  /\ phase = "live"
  /\ \E k \in 0 .. MaxIter :
       /\ nInserts + k <= MaxInserts
       /\ LET iterable == [j \in 1 .. k |-> nInserts + j]
              b == insert_iter(Buf, iterable) IN
            /\ SetBuf(b)
            /\ ret' = [op |-> "insert_iter", iterable |-> iterable]
            /\ model' = RefInsertAll(model, cursor, iterable)
            /\ cursor' = cursor + k
            /\ nInserts' = nInserts + k
            /\ peak' = IF CapFor(len(b)) > peak THEN CapFor(len(b)) ELSE peak
  /\ UNCHANGED <<phase, handed, nRemoved>>

\* insert_iter over an iterator that yields k items and then panics in
\* next(): the loop is left after k completed insert calls and the panic
\* unwinds through the caller
InsertIterAbort ==
  /\ phase = "live"
  /\ \E k \in 0 .. MaxIter :
       /\ nInserts + k <= MaxInserts
       /\ LET produced == [j \in 1 .. k |-> nInserts + j]
              b == insert_iter(Buf, produced) IN
            /\ SetBuf(b)
            /\ ret' = [op |-> "insert_iter_abort", iterable |-> produced]
            /\ model' = RefInsertAll(model, cursor, produced)
            /\ cursor' = cursor + k
            /\ nInserts' = nInserts + k
            /\ peak' = IF CapFor(len(b)) > peak THEN CapFor(len(b)) ELSE peak
  /\ phase' = "unwinding"
  /\ UNCHANGED <<handed, nRemoved>>

Remove ==
  /\ phase = "live"
  /\ LET r == remove(Buf) IN
       /\ SetBuf(r.buf)
       /\ ret' = [op |-> "remove", some |-> r.some, element |-> r.element]
       /\ handed' = IF r.some THEN [handed EXCEPT ![r.element] = @ + 1] ELSE handed
       /\ nRemoved' = IF r.some THEN nRemoved + 1 ELSE nRemoved
       /\ model' = IF cursor < Len(model) THEN RefRemove(model, cursor) ELSE model
  /\ UNCHANGED <<phase, nInserts, peak, cursor>>

SetPosition ==
  /\ phase = "live"
  /\ \E pos \in 0 .. MaxInserts + 1 :
       LET r == set_position(Buf, pos) IN
         /\ SetBuf(r.buf)
         /\ ret' = [op |-> "set_position", pos |-> pos, panic |-> r.panic,
                    slide |-> IF r.panic THEN "none" ELSE SlideKind(Buf, pos)]
         /\ phase' = IF r.panic THEN "unwinding" ELSE "live"
         /\ cursor' = IF pos <= Len(model) THEN pos ELSE cursor
  /\ UNCHANGED <<handed, nInserts, nRemoved, peak, model>>

\* the overflow-checks setting of the build bears on get's one addition
\* only, so it is an input of the call
Get ==
  /\ phase = "live"
  /\ \E index \in GetIndices, checks \in BOOLEAN :
       LET r == get(Buf, index, checks) IN
         /\ ret' = [op |-> "get", index |-> index, kind |-> r.kind, raw |-> r.raw]
         /\ phase' = IF r.kind = "Panic" THEN "unwinding" ELSE "live"
  /\ UNCHANGED <<storage, gap, destructed, touched, handed,
                 nInserts, nRemoved, peak, model, cursor>>

\* the owner releases the buffer, at the end of its scope or while a panic unwinds
Drop ==
  /\ phase \in {"live", "unwinding"}
  /\ SetBuf(drop(Buf))
  /\ phase' = "dropped"
  /\ ret' = [op |-> "drop"]
  /\ UNCHANGED <<handed, nInserts, nRemoved, peak, model, cursor>>

Next ==
  Insert \/ InsertIter \/ InsertIterAbort \/ Remove \/ SetPosition \/ Get \/ Drop

Spec == Init /\ [][Next]_vars

\* The calls that can change the buffer.  get leaves every field as it is,
\* so these behaviours pass through the same buffers as those of Spec.
NextMutators ==
  Insert \/ InsertIter \/ InsertIterAbort \/ Remove \/ SetPosition \/ Drop

SpecMutators == Init /\ [][NextMutators]_vars

\* ---------------------------------------------------------------- helpers
\* s is a subsequence of t (same relative order, nothing duplicated)
RECURSIVE IsSubseq(_, _)
IsSubseq(s, t) ==
  IF Len(s) = 0 THEN TRUE
  ELSE IF Len(t) = 0 THEN FALSE
  ELSE IF Head(s) = Head(t) THEN IsSubseq(Tail(s), Tail(t))
  ELSE IsSubseq(s, Tail(t))

\* k separate insert calls, one per element of s, in order
RECURSIVE InsertEach(_, _)
InsertEach(b, s) ==
  IF Len(s) = 0 THEN b
  ELSE insert(InsertEach(b, SubSeq(s, 1, Len(s) - 1)), s[Len(s)])

\* raw slots that hold no live element according to the gap
InGap(b, i) == b.gap.start <= i /\ i < b.gap.end

\* invariant 1 of the data model
GapBounds(b) ==
  0 <= b.gap.start /\ b.gap.start <= b.gap.end /\ b.gap.end <= capacity(b)

\* invariant 2 of the data model, for a buffer that received the elements
\* 1 .. n and gave away those counted in h: each slot outside the gap holds
\* an element that is still the buffer's, each such element sits in one slot
SlotsLive(b, n, h) ==
  LET out == {i \in 0 .. capacity(b) - 1 : ~InGap(b, i)} IN
    /\ \A i \in out : b.storage.mem[i] \in 1 .. n /\ h[b.storage.mem[i]] = 0
    /\ \A i, j \in out : b.storage.mem[i] = b.storage.mem[j] => i = j
    /\ \A v \in 1 .. n : h[v] = 0 => \E i \in out : b.storage.mem[i] = v

\* invariant 4 of the data model, for the buffer b as drop left it: drop
\* touched exactly the slots outside the gap, and each of the elements
\* 1 .. n was either given away (h) or destructed, once
ReleasedOnce(b, n, h) ==
  /\ b.touched = {i \in 0 .. capacity(b) - 1 : ~InGap(b, i)}
  /\ \A v \in 1 .. n : h[v] + b.destructed[v] = 1
  /\ \A v \in DOMAIN b.destructed \ (1 .. n) : b.destructed[v] = 0

\* the gap and the element in every raw slot outside it
LiveLayout(b) ==
  [gap |-> b.gap,
   live |-> [i \in {j \in 0 .. capacity(b) - 1 : ~InGap(b, j)} |-> b.storage.mem[i]]]

\* a step that is a completed call of the named operation
Called(op) == phase = "live" /\ ret'.op = op /\ vars' # vars

\* ------------------------------------------------------------------ claims

\* C1 -- index roundtrip: in every state the buffer can be used in, len()
\* is the length of the reference sequence and, for every logical index
\* i < len(), get(i) is Some of the element the reference sequence holds at
\* position i; a get call that was made returned that element.
C1_IndexRoundtrip ==
  phase = "live" =>
    /\ len(Buf) = Len(model)
    /\ position(Buf) = cursor
    /\ \A i \in 0 .. len(Buf) - 1, checks \in BOOLEAN :
         LET g == get(Buf, i, checks) IN
           g.kind = "Some" /\ storage.mem[g.raw] = model[i + 1]
    /\ (ret.op = "get" /\ ret.index < len(Buf)) =>
         ret.kind = "Some" /\ storage.mem[ret.raw] = model[ret.index + 1]

\* a get behind a non-empty gap that sits in the middle, with no remove so
\* far, on a buffer whose logical order is not the insertion order (an
\* insert followed a cursor move)
C1_Witness ==
  /\ ret.op = "get" /\ ret.kind = "Some" /\ ret.index < len(Buf)
  /\ ret.index >= gap.start /\ gap.start > 0 /\ RangeLen(gap) > 0
  /\ nRemoved = 0 /\ model[ret.index + 1] < model[1]

\* C2 -- get(index) with index >= len() returns None: it neither panics
\* nor yields a reference to a raw slot.
C2_GetBeyondLenAbsent ==
  (ret.op = "get" /\ ret.index >= len(Buf)) => ret.kind = "None"

\* C3 -- cursor bound: set_position(pos) panics when pos > len(), and
\* otherwise completes with position() = pos.
C3_CursorBound ==
  [][Called("set_position") =>
       IF ret'.pos > len(Buf)
       THEN ret'.panic /\ phase' = "unwinding"
       ELSE ~ret'.panic /\ phase' = "live" /\ position(Buf') = ret'.pos]_vars

\* a refused move on a buffer that holds elements
C3_Witness ==
  ret.op = "set_position" /\ ret.panic /\ len(Buf) > 0 /\ ret.pos = len(Buf) + 1

\* C4 -- remove() with position() < len() returns the element get(position())
\* returned before the call; len() drops by one, position() and capacity()
\* stay, and the remaining elements keep their logical order.
C4_RemoveAfterCursor ==
  [][(Called("remove") /\ position(Buf) < len(Buf)) =>
       LET g == get(Buf, position(Buf), TRUE) IN
         /\ g.kind = "Some"
         /\ ret'.some /\ ret'.element = storage.mem[g.raw]
         /\ len(Buf') = len(Buf) - 1
         /\ position(Buf') = position(Buf)
         /\ capacity(Buf') = capacity(Buf)
         /\ Logical(Buf') = RefRemove(Logical(Buf), position(Buf))]_vars

\* a remove in the middle: elements remain on both sides of the cursor
C4_Witness ==
  /\ ret.op = "remove" /\ ret.some
  /\ 0 < position(Buf) /\ position(Buf) < len(Buf)

\* C5 -- remove() returns None exactly when gap.end = capacity(), which is
\* exactly when position() = len(), and then changes nothing.
C5_RemoveAtEnd ==
  [][Called("remove") =>
       /\ (~ret'.some) <=> (gap.end = capacity(Buf))
       /\ (gap.end = capacity(Buf)) <=> (position(Buf) = len(Buf))
       /\ (~ret'.some) => (Buf' = Buf /\ handed' = handed)]_vars

\* a remove at the end of a buffer that holds elements
C5_Witness ==
  ret.op = "remove" /\ ~ret.some /\ len(Buf) > 1 /\ RangeLen(gap) > 0

\* C6 -- insert(v) at cursor p: get(p) = v, position() = p + 1, len() grows
\* by one, elements before p stay, elements from p on move up by one; with
\* and without growth.
C6_InsertAtCursor ==
  [][Called("insert") =>
       LET p == position(Buf)
           g == get(Buf', p, TRUE) IN
         /\ g.kind = "Some" /\ storage'.mem[g.raw] = ret'.elt
         /\ position(Buf') = p + 1
         /\ len(Buf') = len(Buf) + 1
         /\ \A i \in 0 .. len(Buf) - 1 :
              Logical(Buf')[(IF i < p THEN i ELSE i + 1) + 1] = Logical(Buf)[i + 1]]_vars

\* an insert that grew the buffer from 4 to 8 with elements on both sides
C6_Witness ==
  /\ ret.op = "insert" /\ ret.grew /\ capacity(Buf) = 8
  /\ 1 < position(Buf) /\ position(Buf) < len(Buf)

\* C7 -- insert_iter(e1..ek) leaves the buffer in the state of the k calls
\* insert(e1); ..; insert(ek); position() grows by k, the element before
\* the cursor is ek, and an empty iterable changes nothing.
C7_InsertIterIsRepeatedInsert ==
  [][Called("insert_iter") =>
       LET it == ret'.iterable
           k == Len(it) IN
         /\ Buf' = InsertEach(Buf, it)
         /\ position(Buf') = position(Buf) + k
         /\ \A j \in 1 .. k : Logical(Buf')[position(Buf) + j] = it[j]]_vars

\* two elements inserted by one call in front of existing elements
C7_Witness ==
  /\ ret.op = "insert_iter" /\ Len(ret.iterable) >= 2
  /\ position(Buf) < len(Buf) /\ position(Buf) > Len(ret.iterable)

\* C8 -- length conservation: len() = insert calls - removes that returned
\* an element.
C8_LengthConservation ==
  phase # "dropped" => len(Buf) = nInserts - nRemoved

\* after successful removes, a remove that returned None
C8_Witness ==
  /\ nRemoved >= 2 /\ nInserts >= 4
  /\ ret.op = "remove" /\ ~ret.some /\ len(Buf) > 0

\* C9 -- growth transparency: capacity() never decreases, and an insert
\* (also one that grows the buffer) keeps every element that was there, in
\* order and once.
C9_GrowthTransparency ==
  [][/\ capacity(Buf') >= capacity(Buf)
     /\ (Called("insert") \/ Called("insert_iter")) =>
          LET before == Logical(Buf)
              after == Logical(Buf') IN
            /\ IsSubseq(before, after)
            /\ Cardinality({after[i] : i \in 1 .. Len(after)}) = Len(after)]_vars

\* growth from 4 to 8 that had to carry a suffix of at least two elements
C9_Witness ==
  /\ ret.op = "insert" /\ ret.grew /\ capacity(Buf) = 8
  /\ position(Buf) >= 1 /\ len(Buf) - position(Buf) >= 2

\* C10 -- destruction completeness: once the buffer is dropped every
\* inserted element was released exactly once, by remove() or by drop;
\* drop touched exactly the raw slots outside the gap; before the drop
\* (so also in every growth) no element is destructed.
C10_DestructionCompleteness ==
  /\ \A v \in Elems : handed[v] <= 1
  /\ phase # "dropped" => (touched = {} /\ \A v \in Vals : destructed[v] = 0)
  /\ phase = "dropped" =>
       /\ \A v \in 1 .. nInserts : handed[v] + destructed[v] = 1
       /\ \A v \in Vals \ (1 .. nInserts) : destructed[v] = 0
       /\ touched = {i \in 0 .. capacity(Buf) - 1 : ~InGap(Buf, i)}

\* a drop after growth to 8 and a remove, with elements on both sides of a gap
C10_Witness ==
  /\ phase = "dropped" /\ capacity(Buf) = 8 /\ nRemoved >= 1
  /\ gap.start > 0 /\ gap.end < capacity(Buf) /\ RangeLen(gap) > 1

\* C11 -- gap bounds: 0 <= gap.start <= gap.end <= capacity() in every
\* state reachable through the public operations.
C11_GapBounds == GapBounds(Buf)

\* after growth, removes and a cursor move: a gap strictly inside the block
C11_Witness ==
  /\ ret.op = "set_position" /\ ~ret.panic /\ ret.slide # "none"
  /\ capacity(Buf) = 8 /\ nRemoved >= 1
  /\ 0 < gap.start /\ gap.start < gap.end /\ gap.end < capacity(Buf)

\* C12 -- slot liveness: while the buffer exists, every raw slot outside
\* the gap holds exactly one live element and no live element occupies two
\* such slots; also after slides whose ranges overlap.
C12_SlotLiveness ==
  phase # "dropped" => SlotsLive(Buf, nInserts, handed)

\* a backward slide over more elements than the non-empty gap is long
C12_Witness ==
  /\ ret.op = "set_position" /\ ret.slide = "backward_overlap"
  /\ RangeLen(gap) >= 1 /\ len(Buf) - position(Buf) >= 2

\* C13 -- capacity progression: capacity() is 0 while nothing was
\* inserted, 4 after the first insert, and in general the smallest of
\* 4, 8, 16, .. that holds the largest len() reached so far; the fifth
\* consecutive insert grows the buffer from 4 to 8 and the five elements
\* are read back in insertion order.
C13_CapacityProgression ==
  /\ capacity(Buf) = peak
  /\ nInserts = 0 => capacity(Buf) = 0
  /\ nInserts = 1 => capacity(Buf) = 4
  /\ (ret.op = "insert" /\ ret.elt = 5 /\ model = <<1, 2, 3, 4, 5>>) =>
       /\ ret.grew /\ capacity(Buf) = 8
       /\ \A i \in 0 .. 4 : LET g == get(Buf, i, TRUE) IN
            g.kind = "Some" /\ storage.mem[g.raw] = i + 1

\* the fifth of five consecutive inserts
C13_Witness ==
  /\ ret.op = "insert" /\ ret.elt = 5 /\ ret.grew
  /\ model = <<1, 2, 3, 4, 5>> /\ nRemoved = 0 /\ capacity(Buf) = 8

\* C14 -- lazy growth: capacity() changes only in an insert that finds the
\* gap empty (for insert_iter: one of its insert calls does), and then to
\* max(4, 2 x capacity); an insert with a non-empty gap and every other
\* call leave it unchanged.
C14_LazyGrowth ==
  [][LET old == capacity(Buf)
         new_cap == capacity(Buf')
         grown == new_cap # old IN
       /\ grown =>
            /\ phase = "live"
            /\ ret'.op \in {"insert", "insert_iter", "insert_iter_abort"}
            /\ new_cap = (IF 2 * old > 4 THEN 2 * old ELSE 4)
       /\ Called("insert") => (grown <=> RangeLen(gap) = 0)
       /\ (Called("insert_iter") \/ Called("insert_iter_abort")) =>
            (grown <=> \E j \in 0 .. Len(ret'.iterable) - 1 :
                         RangeLen(InsertEach(Buf, SubSeq(ret'.iterable, 1, j)).gap) = 0)]_vars

\* an insert that filled the last free slot of a block of 4 and did not grow
C14_Witness ==
  /\ ret.op = "insert" /\ ~ret.grew
  /\ capacity(Buf) = 4 /\ RangeLen(gap) = 0 /\ position(Buf) < len(Buf)

\* C15 -- growth layout: the growth step of an insert keeps gap.start and
\* the number of elements behind the gap; the new gap is
\* gap.start .. new_capacity - after_gap, as long as the added capacity;
\* the prefix keeps its raw indices and the suffix ends at the end of the
\* new block.  The insert then writes into the first slot of that gap.
C15_GrowthLayout ==
  [][(Called("insert") /\ RangeLen(gap) = 0) =>
       LET g == enlarge_gap(Buf)
           added == capacity(g) - capacity(Buf)
           after_gap == capacity(Buf) - gap.end IN
         /\ g.gap.start = gap.start
         /\ capacity(g) - g.gap.end = after_gap
         /\ g.gap = [start |-> gap.start, end |-> capacity(g) - after_gap]
         /\ RangeLen(g.gap) = added /\ added > 0
         /\ \A i \in 0 .. gap.start - 1 : g.storage.mem[i] = storage.mem[i]
         /\ \A i \in gap.end .. capacity(Buf) - 1 :
              g.storage.mem[i + added] = storage.mem[i]
         /\ \A i \in 0 .. capacity(g) - 1 : InGap(g, i) => g.storage.mem[i] = Uninit
         /\ gap' = [start |-> gap.start + 1, end |-> g.gap.end]
         /\ storage' = [g.storage EXCEPT !.mem[gap.start] = ret'.elt]]_vars

\* growth from 4 to 8 around a cursor with two elements on either side
C15_Witness ==
  /\ ret.op = "insert" /\ ret.grew /\ capacity(Buf) = 8
  /\ position(Buf) = 3 /\ len(Buf) = 5

\* C16 -- a set_position(pos) that is accepted changes only where the gap
\* sits: the logical sequence, len(), capacity() and the gap length stay,
\* the gap becomes pos .. pos + gap length; with pos = position() nothing
\* at all changes.
C16_SetPositionFrame ==
  [][(Called("set_position") /\ ~ret'.panic) =>
       /\ Logical(Buf') = Logical(Buf)
       /\ len(Buf') = len(Buf)
       /\ capacity(Buf') = capacity(Buf)
       /\ RangeLen(gap') = RangeLen(gap)
       /\ gap' = [start |-> ret'.pos, end |-> ret'.pos + RangeLen(gap)]
       /\ destructed' = destructed /\ touched' = touched /\ handed' = handed
       /\ ret'.pos = position(Buf) => Buf' = Buf]_vars

\* a forward slide over more elements than the gap is long, after growth
C16_Witness ==
  /\ ret.op = "set_position" /\ ret.slide = "forward_overlap"
  /\ capacity(Buf) = 8 /\ RangeLen(gap) >= 1 /\ position(Buf) < len(Buf)

\* C17 -- early exit of insert_iter: when the iterator ends or panics after
\* k items the buffer is in the state of k completed insert calls, the gap
\* bounds and the slot liveness hold after each of them, and the drop that
\* follows the panic releases each live element once and no gap slot.
C17_InsertIterEarlyExit ==
  [][/\ (Called("insert_iter") \/ Called("insert_iter_abort")) =>
          LET it == ret'.iterable IN
            /\ Buf' = InsertEach(Buf, it)
            /\ phase' = (IF ret'.op = "insert_iter_abort" THEN "unwinding" ELSE "live")
            /\ \A j \in 0 .. Len(it) :
                 LET bj == InsertEach(Buf, SubSeq(it, 1, j)) IN
                   GapBounds(bj) /\ SlotsLive(bj, nInserts + j, handed)
     /\ (phase = "unwinding" /\ ret.op = "insert_iter_abort" /\ phase' = "dropped") =>
          ReleasedOnce(Buf', nInserts, handed)]_vars

\* an iterator that panicked after two items, the second of which made the
\* buffer grow around a cursor in the middle
C17_Witness ==
  /\ phase = "unwinding" /\ ret.op = "insert_iter_abort"
  /\ Len(ret.iterable) = 2 /\ capacity(Buf) = 8 /\ len(Buf) = 5
  /\ nRemoved = 0 /\ position(Buf) < len(Buf)

\* C18 -- a set_position(pos) that is refused (pos > len()) has changed
\* nothing when it panics: gap, capacity and every slot are as before, and
\* the drop during the unwinding releases each live element once.
C18_RefusedSetPosition ==
  [][/\ (Called("set_position") /\ ret'.panic) =>
          /\ ret'.pos > len(Buf)
          /\ Buf' = Buf /\ handed' = handed
          /\ phase' = "unwinding"
     /\ (phase = "unwinding" /\ ret.op = "set_position" /\ phase' = "dropped") =>
          ReleasedOnce(Buf', nInserts, handed)]_vars

\* a refused move on a grown buffer with elements on both sides of the gap
C18_Witness ==
  /\ phase = "unwinding" /\ ret.op = "set_position" /\ ret.panic
  /\ capacity(Buf) = 8 /\ nRemoved >= 1
  /\ 0 < gap.start /\ gap.end < capacity(Buf)

\* C19 -- cursor moves compose: for all p, q <= len(), set_position(p)
\* followed by set_position(q) leaves the gap and the live element of every
\* slot outside it as set_position(q) alone does; so a move made twice is
\* the move made once (p = q), and a move away and back to the cursor q
\* restores the layout, since the move to the cursor the buffer already
\* has keeps it.
C19_MovesCompose ==
  phase = "live" =>
    \A q \in 0 .. len(Buf) :
      LET once == set_position(Buf, q)
          layout == LiveLayout(once.buf) IN
        /\ ~once.panic
        /\ q = position(Buf) => layout = LiveLayout(Buf)
        /\ \A p \in 0 .. len(Buf) :
             LET second == set_position(set_position(Buf, p).buf, q) IN
               ~second.panic /\ LiveLayout(second.buf) = layout

\* reached by a backward slide, in a grown buffer where moves of every
\* kind (overlapping or not, both directions) are possible
C19_Witness ==
  /\ phase = "live" /\ ret.op = "set_position" /\ ret.slide = "backward"
  /\ capacity(Buf) = 8 /\ len(Buf) = 5 /\ position(Buf) = 2

\* C20 -- insert / remove round trip: from a state with cursor p,
\* insert(v); set_position(p); remove() returns v and restores the logical
\* sequence, len() and position(); capacity() does not shrink back.
C20_InsertRemoveRoundTrip ==
  phase = "live" =>
    LET p == position(Buf)
        v == nInserts + 1
        b1 == insert(Buf, v)
        s == set_position(b1, p)
        r == remove(s.buf) IN
      /\ ~s.panic
      /\ r.some /\ r.element = v
      /\ Logical(r.buf) = Logical(Buf)
      /\ len(r.buf) = len(Buf)
      /\ position(r.buf) = p
      /\ capacity(r.buf) = capacity(b1) /\ capacity(r.buf) >= capacity(Buf)

\* the behaviour did it: the fifth element made the buffer grow and was
\* then taken out again with the cursor in the middle
C20_Witness ==
  /\ ret.op = "remove" /\ ret.some /\ ret.element = nInserts
  /\ nInserts = 5 /\ nRemoved = 1 /\ capacity(Buf) = 8 /\ len(Buf) = 4
  /\ 0 < position(Buf) /\ position(Buf) < len(Buf)
====
